---------------------------- MODULE Spec2Model ----------------------------
(***************************************************************************)
(* A model of src/pingsweep.py: the target resolver (determine_subnet),    *)
(* the host prober (ping_ip), the range scanner (scan_network, a bounded   *)
(* ThreadPoolExecutor driven through executor.map) and the orchestrating   *)
(* loop of main with its three aggregates.                                 *)
(*                                                                         *)
(* Text is modelled as a sequence of one-character strings, so that        *)
(* strip, the test '/' in entry, str(network), replace and the slice [:31] *)
(* are computed rather than assumed.  An IPv4 address is the tuple of its  *)
(* four octets (the 32-bit value does not fit TLC's integers); comparing   *)
(* two tuples octet by octet is comparing the 32-bit values.               *)
(***************************************************************************)
EXTENDS Integers, Sequences, FiniteSets, TLC

VARIABLES
    entries,          \* main: the list of input lines
    max_threads,      \* main: the thread limit handed to scan_network
    wire,             \* the network: which addresses answer, which calls fail
    pc,               \* where main is
    i,                \* main: index of the entry the for loop is at
    network,          \* main: the network the current entry resolved to
    host_list,        \* scan_network: hosts = list(network.hosts())
    started,          \* executor: number of queued calls handed to a worker
    running,          \* executor: calls in a worker, as <<entry index, host index>>
    futures,          \* executor: the outcome of each finished call, by host index
    results,          \* scan_network: results
    all_results,      \* main: sheet name -> rows
    all_reachable,    \* main
    all_unreachable,  \* main
    console           \* what console.print reported about the entries

vars == <<entries, max_threads, wire, pc, i, network, host_list, started,
          running, futures, results, all_results, all_reachable,
          all_unreachable, console>>

---------------------------------------------------------------------------
(* Bounds of the model *)

MaxEntries == 2
MaxThreads == 2

---------------------------------------------------------------------------
(* Text *)

\* F applied to the value of x, which is computed once
Apply(F(_), x) == CHOOSE r \in {F(v) : v \in {x}} : TRUE

Digits == <<"0", "1", "2", "3", "4", "5", "6", "7", "8", "9">>

IsDigit(c) == \E d \in 1..Len(Digits) : Digits[d] = c

DigitVal(c) == (CHOOSE d \in 1..Len(Digits) : Digits[d] = c) - 1

\* c in t
Contains(t, c) == \E k \in 1..Len(t) : t[k] = c

\* the positions of c in t
Positions(t, c) == {k \in 1..Len(t) : t[k] = c}

\* the position of the m-th c in t; 0 before the first, Len(t) + 1 after
\* the last
NthPosition(t, c, m) ==
    IF m = 0 THEN 0
    ELSE IF m > Cardinality(Positions(t, c)) THEN Len(t) + 1
    ELSE CHOOSE k \in Positions(t, c) :
             Cardinality({j \in Positions(t, c) : j <= k}) = m

\* t.split(sep): the texts between one separator and the next
split(t, sep) ==
    [m \in 1..(Cardinality(Positions(t, sep)) + 1) |->
        SubSeq(t, NthPosition(t, sep, m - 1) + 1, NthPosition(t, sep, m) - 1)]

\* t.strip(): from the first character that is no blank to the last
strip(t) ==
    LET inked == {k \in 1..Len(t) : t[k] # " "}
    IN  IF inked = {} THEN <<>>
        ELSE SubSeq(t, CHOOSE k \in inked : \A j \in inked : k <= j,
                       CHOOSE k \in inked : \A j \in inked : k >= j)

RECURSIVE IntOfFirst(_, _)
\* the value of the first k digits of t
IntOfFirst(t, k) ==
    IF k = 0 THEN 0 ELSE 10 * IntOfFirst(t, k - 1) + DigitVal(t[k])

\* int(t) of a text of decimal digits
int(t) == IntOfFirst(t, Len(t))

RECURSIVE str_int(_)
\* str(n) of a natural number
str_int(n) ==
    IF n < 10 THEN <<Digits[n + 1]>>
    ELSE str_int(n \div 10) \o <<Digits[(n % 10) + 1]>>

\* t.replace(old, new) for single characters
replace(t, old, new) == [k \in 1..Len(t) |-> IF t[k] = old THEN new ELSE t[k]]

AllDigits(t) == Len(t) > 0 /\ \A k \in 1..Len(t) : IsDigit(t[k])

---------------------------------------------------------------------------
(* ipaddress: addresses and networks *)

Pow2(n) == 2 ^ n

\* what the resolver hands back when the text is no address or network
None == [ok |-> FALSE, addr |-> <<>>, prefixlen |-> 0]

\* IPv4Address._parse_octet: one to three decimal digits, no leading zero,
\* at most 255
ValidOctet(t) ==
    /\ AllDigits(t)
    /\ Len(t) <= 3
    /\ ~(Len(t) > 1 /\ t[1] = "0")
    /\ int(t) <= 255

\* ipaddress.ip_address(t) for a text without ':' : the four octets, or <<>>
\* where the library raises ValueError
ip_address(t) ==
    LET Octets(parts) ==
            IF Len(parts) = 4 /\ \A k \in 1..4 : ValidOctet(parts[k])
            THEN <<int(parts[1]), int(parts[2]), int(parts[3]), int(parts[4])>>
            ELSE <<>>
    IN  Apply(Octets, split(t, "."))

\* str(ip)
str_ip(a) ==
    str_int(a[1]) \o <<".">> \o str_int(a[2]) \o <<".">> \o
    str_int(a[3]) \o <<".">> \o str_int(a[4])

\* the number of bits of octet k that a prefix of length p covers
OctetBits(p, k) ==
    LET b == p - 8 * (k - 1)
    IN  IF b < 0 THEN 0 ELSE IF b > 8 THEN 8 ELSE b

\* int(address) & int(netmask), octet by octet
network_address(a, p) ==
    [k \in 1..4 |-> a[k] - (a[k] % Pow2(8 - OctetBits(p, k)))]

\* int(network_address) | int(hostmask), octet by octet
broadcast_address(a, p) ==
    [k \in 1..4 |-> a[k] - (a[k] % Pow2(8 - OctetBits(p, k)))
                      + Pow2(8 - OctetBits(p, k)) - 1]

\* IPv4Network._prefix_from_prefix_string: decimal digits, at most 32;
\* -1 where the library raises NetmaskValueError.  (A mask written as a
\* dotted quad is outside the inputs modelled.)
prefix_from_string(t) ==
    IF AllDigits(t) /\ int(t) <= 32 THEN int(t) ELSE -1

\* ipaddress.ip_network(t, strict=True): host bits set are a ValueError
ip_network_strict(t) ==
    LET Made(parts) ==
            LET p == IF Len(parts) = 2 THEN prefix_from_string(parts[2]) ELSE 32
                Net(a) ==
                    IF Len(parts) > 2 \/ a = <<>> \/ p < 0
                       \/ network_address(a, p) # a
                    THEN None
                    ELSE [ok |-> TRUE, addr |-> a, prefixlen |-> p]
            IN  Apply(Net, ip_address(parts[1]))
    IN  Apply(Made, split(t, "/"))

\* ipaddress.ip_network(t, strict=False) for IPv4 text: None where the
\* library raises ValueError
ip_network(t) ==
    LET Made(parts) ==
            LET p == IF Len(parts) = 2 THEN prefix_from_string(parts[2]) ELSE 32
                Net(a) ==
                    IF Len(parts) > 2 \/ a = <<>> \/ p < 0
                    THEN None
                    ELSE [ok |-> TRUE, addr |-> network_address(a, p),
                          prefixlen |-> p]
            IN  Apply(Net, ip_address(parts[1]))
    IN  Apply(Made, split(t, "/"))

\* str(network)
str_network(n) == str_ip(n.addr) \o <<"/">> \o str_int(n.prefixlen)

\* the address k after a, the carry taken from octet to octet
AddOffset(a, k) ==
    LET s4 == a[4] + k
        s3 == a[3] + (s4 \div 256)
        s2 == a[2] + (s3 \div 256)
        s1 == a[1] + (s2 \div 256)
    IN  <<s1 % 256, s2 % 256, s3 % 256, s4 % 256>>

\* network.num_addresses for prefix length p: int(broadcast) - int(network) + 1
num_addresses(p) == Pow2(32 - p)

\* a < b as 32-bit values
AddrLess(a, b) ==
    \E k \in 1..4 : a[k] < b[k] /\ \A m \in 1..(k - 1) : a[m] = b[m]

\* an enumeration that starts at the network address
hosts_from_network_address(n) ==
    IF n.prefixlen = 32 THEN <<n.addr>>
    ELSE IF n.prefixlen = 31 THEN <<n.addr, broadcast_address(n.addr, 31)>>
    ELSE [k \in 1..(num_addresses(n.prefixlen) - 1) |-> AddOffset(n.addr, k - 1)]

\* list(network.hosts()): the addresses of range(network + 1, broadcast),
\* ascending; a /31 yields both of its addresses and a /32 its one address
hosts(n) ==
    IF n.prefixlen = 32 THEN <<n.addr>>
    ELSE IF n.prefixlen = 31 THEN <<n.addr, broadcast_address(n.addr, 31)>>
    ELSE [k \in 1..(num_addresses(n.prefixlen) - 2) |-> AddOffset(n.addr, k)]

---------------------------------------------------------------------------
(* The inputs the model runs on *)

\* "10.0.0.9/29"
EntryHostBits29 ==
    <<"1", "0", ".", "0", ".", "0", ".", "9", "/", "2", "9">>

\* "10.0.0.5/30"
EntryHostBits30 ==
    <<"1", "0", ".", "0", ".", "0", ".", "5", "/", "3", "0">>

\* "10.0.0.3/31"
EntryPointToPoint31 ==
    <<"1", "0", ".", "0", ".", "0", ".", "3", "/", "3", "1">>

\* "10.0.0.7/32"
EntrySingle32 ==
    <<"1", "0", ".", "0", ".", "0", ".", "7", "/", "3", "2">>

\* "not-an-ip"
EntryNotAnIp ==
    <<"n", "o", "t", "-", "a", "n", "-", "i", "p">>

\* "10.0.0.1/33"
EntryBadPrefix ==
    <<"1", "0", ".", "0", ".", "0", ".", "1", "/", "3", "3">>

\* the lines read_input_file may hand to main (it strips them): CIDR
\* ranges of at most six hosts (with host bits set, a /31, a /32) and two
\* lines that are no network
Pool ==
    {EntryHostBits29, EntryHostBits30, EntryPointToPoint31, EntrySingle32,
     EntryNotAnIp, EntryBadPrefix}

\* the states of the network: which third of the addresses answers the
\* ping, which third does not, and for which third running ping fails
Wires == 0..2

---------------------------------------------------------------------------
(* The program *)

\* subprocess.run(['ping', ...]) for address ip: exit status 0, another
\* exit status, or an exception
Transport(ip) ==
    LET r == (ip[4] + wire) % 3
    IN  IF r = 0 THEN "rc0" ELSE IF r = 1 THEN "rc1" ELSE "raise"

\* ping_ip without its try/except: the exception leaves the call
ping_ip_unguarded(ip) ==
    IF Transport(ip) = "raise"
    THEN [raised |-> TRUE, value |-> <<>>]
    ELSE [raised |-> FALSE, value |-> <<str_ip(ip), Transport(ip) = "rc0">>]

\* ping_ip(ip): (str(ip), returncode == 0), and (str(ip), False) when
\* subprocess.run raises
ping_ip(ip) ==
    [raised |-> FALSE,
     value  |-> <<str_ip(ip),
                  IF Transport(ip) = "raise" THEN FALSE
                  ELSE Transport(ip) = "rc0">>]

\* determine_subnet(entry): the network, or None after reporting the error
determine_subnet(entry) ==
    LET Widened(ip) ==
            IF ip = <<>> THEN None
            ELSE Apply(ip_network, str_ip(ip) \o <<"/", "2", "4">>)
    IN  IF Contains(entry, "/")
        THEN Apply(ip_network, strip(entry))
        ELSE Apply(Widened, Apply(ip_address, strip(entry)))

SheetNameLimit == 31

\* t[:n]
Slice(t, n) == SubSeq(t, 1, IF Len(t) < n THEN Len(t) ELSE n)

\* the sheet name without the replacement of "/"
sheet_name_unsanitized(n) == Slice(str_network(n), SheetNameLimit)

\* str(network).replace("/", "_")[:31]
sheet_name(n) == Slice(replace(str_network(n), "/", "_"), SheetNameLimit)

\* "Reachable" if status else "Unreachable"
StatusText(status) == IF status THEN "Reachable" ELSE "Unreachable"

\* the comprehension without its filter
all_ips(rows, wanted) == [k \in 1..Len(rows) |-> rows[k][1]]

\* [ip for ip, status in rows if status == wanted]
ips_with_status(rows, wanted) ==
    LET Wanted(row) == row[2] = wanted
        kept == SelectSeq(rows, Wanted)
    IN  [k \in 1..Len(kept) |-> kept[k][1]]

\* an executor that starts a thread for every queued call
SlotAlwaysFree == TRUE

\* ThreadPoolExecutor(max_workers=max_threads): a queued call is taken up
\* only while fewer than max_workers calls are running
SlotFree == Cardinality(running) < max_threads

\* results handed out as the calls complete
YieldableAsCompleted(j) ==
    /\ j \in DOMAIN futures
    /\ \A r \in 1..Len(results) : results[r][1] # str_ip(host_list[j])

\* executor.map: the result of call j is handed out when every earlier
\* result has been, and call j has finished
Yieldable(j) ==
    /\ j \in DOMAIN futures
    /\ j = Len(results) + 1

\* a scan that returns once the pool is idle
ScanReturnsWhenIdle == running = {}

\* a scan that returns once every call has been handed to a worker
ScanReturnsWhenDispatched == started = Len(host_list)

\* scan_network returns when the for loop has consumed every result and
\* the with block has shut the executor down, which waits for its workers
ScanReturns ==
    /\ Len(results) = Len(host_list)
    /\ running = {}

Init ==
    /\ entries \in UNION {[1..n -> Pool] : n \in 0..MaxEntries}
    /\ max_threads \in 1..MaxThreads
    /\ wire \in Wires
    /\ pc = "loop"
    /\ i = 1
    /\ network = None
    /\ host_list = <<>>
    /\ started = 0
    /\ running = {}
    /\ futures = <<>>
    /\ results = <<>>
    /\ all_results = <<>>
    /\ all_reachable = <<>>
    /\ all_unreachable = <<>>
    /\ console = <<>>

scan_locals == <<host_list, started, futures, results>>
aggregates == <<all_results, all_reachable, all_unreachable>>
inputs == <<entries, max_threads, wire>>

\* main, an entry that does not resolve, ended by break instead of continue
SkipInvalidBreak ==
    /\ pc = "loop"
    /\ i <= Len(entries)
    /\ determine_subnet(entries[i]) = None
    /\ console' = Append(console, [kind |-> "Invalid", entry |-> i])
    /\ i' = Len(entries) + 1
    /\ UNCHANGED <<inputs, pc, network, running, scan_locals, aggregates>>

\* main, an entry that does not resolve: determine_subnet prints the error
\* and returns None, the loop continues with the next entry
SkipInvalid ==
    /\ pc = "loop"
    /\ i <= Len(entries)
    /\ determine_subnet(entries[i]) = None
    /\ console' = Append(console, [kind |-> "Invalid", entry |-> i])
    /\ i' = i + 1
    /\ UNCHANGED <<inputs, pc, network, running, scan_locals, aggregates>>

\* main, an entry that resolves: the network is announced and scan_network
\* lists its hosts and queues one ping_ip call for each
BeginScan ==
    /\ pc = "loop"
    /\ i <= Len(entries)
    /\ determine_subnet(entries[i]) # None
    /\ network' = determine_subnet(entries[i])
    /\ console' = Append(console, [kind |-> "Scanning", entry |-> i])
    /\ host_list' = hosts(network')
    /\ started' = 0
    /\ futures' = <<>>
    /\ results' = <<>>
    /\ pc' = "scan"
    /\ UNCHANGED <<inputs, i, running, aggregates>>

\* a worker of the pool takes the next queued call
StartProbe ==
    /\ pc = "scan"
    /\ started < Len(host_list)
    /\ SlotFree
    /\ started' = started + 1
    /\ running' = running \cup {<<i, started + 1>>}
    /\ UNCHANGED <<inputs, pc, i, network, host_list, futures, results,
                   aggregates, console>>

\* a running ping_ip call returns and its future is set
FinishProbe ==
    \E job \in running :
        /\ running' = running \ {job}
        /\ futures' = IF pc = "scan" /\ job[1] = i
                      THEN futures @@ (job[2] :> ping_ip(host_list[job[2]]))
                      ELSE futures
        /\ UNCHANGED <<inputs, pc, i, network, host_list, started, results,
                       aggregates, console>>

\* the for loop of scan_network receives the next result and appends its
\* row; an exception held by the future is raised here and leaves main
YieldResult ==
    /\ pc = "scan"
    /\ \E j \in DOMAIN futures :
        /\ Yieldable(j)
        /\ IF futures[j].raised
           THEN /\ pc' = "raised"
                /\ results' = results
           ELSE /\ pc' = pc
                /\ results' = Append(results,
                                     <<futures[j].value[1],
                                       StatusText(futures[j].value[2])>>)
    /\ UNCHANGED <<inputs, i, network, host_list, started, running, futures,
                   aggregates, console>>

\* scan_network returns its results to main
ReturnScan ==
    /\ pc = "scan"
    /\ ScanReturns
    /\ pc' = "aggregate"
    /\ UNCHANGED <<inputs, i, network, host_list, started, running, futures,
                   results, aggregates, console>>

\* main stores the rows under the sheet name and extends the two lists
Aggregate ==
    /\ pc = "aggregate"
    /\ all_results' =
           [k \in DOMAIN all_results \cup {sheet_name(network)} |->
               IF k = sheet_name(network) THEN results ELSE all_results[k]]
    /\ all_reachable' =
           all_reachable \o ips_with_status(results, "Reachable")
    /\ all_unreachable' =
           all_unreachable \o ips_with_status(results, "Unreachable")
    /\ i' = i + 1
    /\ pc' = "loop"
    /\ host_list' = <<>>
    /\ started' = 0
    /\ futures' = <<>>
    /\ results' = <<>>
    /\ UNCHANGED <<inputs, network, running, console>>

\* the loop is over: the summary is printed and the report handed over
Finish ==
    /\ pc = "loop"
    /\ i > Len(entries)
    /\ pc' = "done"
    /\ UNCHANGED <<inputs, i, network, running, scan_locals, aggregates,
                   console>>

Next ==
    \/ SkipInvalid
    \/ BeginScan
    \/ StartProbe
    \/ FinishProbe
    \/ YieldResult
    \/ ReturnScan
    \/ Aggregate
    \/ Finish

Spec == Init /\ [][Next]_vars

\* every thread that can take a step eventually does, and a ping returns
\* within its timeout
FairSpec == Init /\ [][Next]_vars /\ WF_vars(Next)

---------------------------------------------------------------------------
(* The resolver on its own: determine_subnet applied to one text *)

ResolveAddrs ==
    {<<10, 0, 0, 5>>, <<192, 168, 1, 255>>, <<172, 16, 5, 77>>,
     <<255, 255, 255, 255>>, <<0, 0, 0, 0>>, <<1, 2, 3, 4>>,
     <<128, 129, 130, 131>>, <<10, 255, 0, 1>>}

\* the prefix lengths written after the address; -1 stands for a bare
\* address, 33 is no prefix length
ResolvePrefixes == {-1, 0, 1, 8, 15, 24, 25, 30, 31, 32, 33}

\* the text of address a followed by "/p", or a alone
Spelling(a, p) ==
    IF p < 0 THEN str_ip(a) ELSE str_ip(a) \o <<"/">> \o str_int(p)

\* the texts the resolver is applied to, once as they are and once padded
\* with blanks
ResolvePool ==
    LET plain == {Spelling(a, p) : a \in ResolveAddrs, p \in ResolvePrefixes}
    IN  plain \cup {<<" ">> \o t \o <<" ">> : t \in plain}
              \cup {EntryNotAnIp}

ResolveInit ==
    /\ entries \in {<<t>> : t \in ResolvePool}
    /\ max_threads = 1
    /\ wire = 0
    /\ pc = "resolve"
    /\ i = 1
    /\ network = None
    /\ host_list = <<>>
    /\ started = 0
    /\ running = {}
    /\ futures = <<>>
    /\ results = <<>>
    /\ all_results = <<>>
    /\ all_reachable = <<>>
    /\ all_unreachable = <<>>
    /\ console = <<>>

\* network = determine_subnet(entry); the error is printed when it is None
Resolve ==
    /\ pc = "resolve"
    /\ network' = determine_subnet(entries[i])
    /\ console' = IF network' = None
                  THEN Append(console, [kind |-> "Invalid", entry |-> i])
                  ELSE console
    /\ pc' = "resolved"
    /\ UNCHANGED <<inputs, i, running, scan_locals, aggregates>>

ResolveNext == Resolve

ResolveSpec == ResolveInit /\ [][ResolveNext]_vars

---------------------------------------------------------------------------
(* What the claims speak of, stated apart from the program's own steps *)

\* bit n of address a, bit 1 the most significant of the 32
Bit(a, n) == (a[((n - 1) \div 8) + 1] \div Pow2(7 - ((n - 1) % 8))) % 2

\* address a lies in the network n
InNetwork(a, n) == \A b \in 1..n.prefixlen : Bit(a, b) = Bit(n.addr, b)

\* the host bits of network n are zero
HostBitsZero(n) == \A b \in (n.prefixlen + 1)..32 : Bit(n.addr, b) = 0

\* the last address of network n: every host bit one
LastAddress(n) ==
    CHOOSE a \in {<<n.addr[1], n.addr[2], n.addr[3], x>> : x \in 0..255} :
        /\ InNetwork(a, n)
        /\ \A b \in (n.prefixlen + 1)..32 : Bit(a, b) = 1

\* the addresses of a network of prefix length 24 or more
AddressesOf(n) ==
    {a \in {<<n.addr[1], n.addr[2], n.addr[3], x>> : x \in 0..255} :
        InNetwork(a, n)}

\* the rows a scan of network n owes: one per host, ascending, the status
\* the wire gives
ExpectedRows(n) ==
    [k \in 1..Len(hosts(n)) |->
        <<str_ip(hosts(n)[k]),
          IF Transport(hosts(n)[k]) = "rc0" THEN "Reachable" ELSE "Unreachable">>]

RECURSIVE ExpectedIps(_, _, _)
\* the addresses among the first k hosts of n that answer (or do not)
ExpectedIps(n, k, answers) ==
    IF k = 0 THEN <<>>
    ELSE ExpectedIps(n, k - 1, answers) \o
         (IF (Transport(hosts(n)[k]) = "rc0") = answers
          THEN <<str_ip(hosts(n)[k])>> ELSE <<>>)

RECURSIVE ExpectedGlobal(_, _)
\* the global list after the first e entries
ExpectedGlobal(e, answers) ==
    IF e = 0 THEN <<>>
    ELSE ExpectedGlobal(e - 1, answers) \o
         (LET n == determine_subnet(entries[e])
          IN  IF n = None THEN <<>>
              ELSE ExpectedIps(n, Len(hosts(n)), answers))

Range(f) == {f[x] : x \in DOMAIN f}

\* key is the text of n with "/" turned into "_", cut at 31 characters
IsIdentifier(key, n) ==
    LET t == str_network(n)
    IN  /\ Len(key) = (IF Len(t) > 31 THEN 31 ELSE Len(t))
        /\ \A k \in 1..Len(key) : key[k] = (IF t[k] = "/" THEN "_" ELSE t[k])

\* the entry the loop is at does not resolve
AtInvalidEntry ==
    /\ pc = "loop"
    /\ i <= Len(entries)
    /\ determine_subnet(entries[i]) = None

---------------------------------------------------------------------------
(* The claims *)

\* C1: during a scan the number of probes executing at once never exceeds
\* the concurrency limit, whatever the interleaving of starts and
\* completions; calls beyond the limit wait in the queue.
C1_ConcurrencyBound == Cardinality(running) <= max_threads

\* C1 witness: as many probes in flight as the limit allows, with further
\* addresses waiting for a slot
C1_Witness ==
    /\ pc = "scan"
    /\ max_threads > 1
    /\ Cardinality(running) = max_threads
    /\ started < Len(host_list)

\* C2: the result a scan returns holds exactly one row per enumerated host
\* address (none missing, none twice, none from elsewhere), so its length
\* is the number of hosts, and every status is Reachable or Unreachable.
C2_OneResultPerHost ==
    pc = "aggregate" =>
        /\ Len(results) = Len(host_list)
        /\ \A h \in 1..Len(host_list) :
              Cardinality({r \in 1..Len(results) :
                              results[r][1] = str_ip(host_list[h])}) = 1
        /\ \A r \in 1..Len(results) :
              /\ \E h \in 1..Len(host_list) : results[r][1] = str_ip(host_list[h])
              /\ results[r][2] \in {"Reachable", "Unreachable"}

\* C2 witness: a scan of a six-host range has returned
C2_Witness ==
    /\ pc = "aggregate"
    /\ Len(host_list) = 6
    /\ Len(results) = 6

\* C3: the result a scan returns is in ascending address order for every
\* limit and every completion order, and is the same sequence for the same
\* range and the same answers whatever the interleaving.
C3_AscendingAndDeterministic ==
    pc = "aggregate" =>
        /\ \A r \in 1..(Len(results) - 1) :
              AddrLess(ip_address(results[r][1]), ip_address(results[r + 1][1]))
        /\ results = ExpectedRows(network)

\* C3 witness: the third call has finished while the second still runs, and
\* the first result has been handed out
C3_Witness ==
    /\ pc = "scan"
    /\ Len(results) = 1
    /\ <<i, 2>> \in running
    /\ 3 \in DOMAIN futures

\* C4: an entry that does not resolve is reported, leaves the sheets and
\* both global lists as they were, raises nothing, and the loop goes on to
\* the next entry; when the run ends every entry has been handled in turn,
\* and a run over invalid entries only ends with no sheet and empty lists.
C4_InvalidEntrySkipped ==
    /\ [][AtInvalidEntry =>
            /\ UNCHANGED aggregates
            /\ console' = Append(console, [kind |-> "Invalid", entry |-> i])
            /\ i' = i + 1
            /\ pc' = "loop"]_vars
    /\ [](pc = "done" =>
            /\ Len(console) = Len(entries)
            /\ \A k \in 1..Len(console) : console[k].entry = k
            /\ ((\A k \in 1..Len(entries) : determine_subnet(entries[k]) = None)
                  => /\ all_results = <<>>
                     /\ all_reachable = <<>>
                     /\ all_unreachable = <<>>))

\* C4 witness: a run that skipped an invalid entry and scanned the one
\* after it has ended
C4_Witness ==
    /\ pc = "done"
    /\ Len(console) = 2
    /\ console[1].kind = "Invalid"
    /\ console[2].kind = "Scanning"
    /\ DOMAIN all_results # {}

\* C5: the all-reachable list is the concatenation, in entry order, of the
\* answering addresses of each scanned range in ascending order, the
\* all-unreachable list the same for the others, and every stored row is
\* in the list of its status and not in the other.
C5_GlobalListsInOrder ==
    /\ all_reachable = ExpectedGlobal(i - 1, TRUE)
    /\ all_unreachable = ExpectedGlobal(i - 1, FALSE)
    /\ \A key \in DOMAIN all_results :
          \A r \in 1..Len(all_results[key]) :
              LET row == all_results[key][r]
              IN  /\ (row[2] = "Reachable") =
                         (row[1] \in Range(all_reachable))
                  /\ (row[2] = "Unreachable") =
                         (row[1] \in Range(all_unreachable))

\* C5 witness: a run over two different ranges has ended with both lists
\* filled
C5_Witness ==
    /\ pc = "done"
    /\ Cardinality(DOMAIN all_results) = 2
    /\ Len(all_reachable) > 1
    /\ Len(all_unreachable) > 1

C7_ProbeAlwaysClassifies ==
    /\ pc # "raised"
    /\ \A j \in DOMAIN futures :
          /\ ~futures[j].raised
          /\ futures[j].value =
                <<str_ip(host_list[j]), Transport(host_list[j]) = "rc0">>
    /\ pc = "aggregate" =>
          /\ Len(results) = Len(host_list)
          /\ \A k \in 1..Len(results) :
                (results[k][2] = "Reachable") = (Transport(host_list[k]) = "rc0")

\* C7 witness: a scan has returned all rows of a range in which one call
\* failed and another address answered
C7_Witness ==
    /\ pc = "aggregate"
    /\ Len(results) = Len(host_list)
    /\ \E k \in 1..Len(host_list) : Transport(host_list[k]) = "raise"
    /\ \E k \in 1..Len(results) : results[k][2] = "Reachable"

\* C8 as claimed: for every range, /31 and /32 included, the result holds
\* neither the network address nor the broadcast address, and its length
\* is the number of addresses of the range less those two.
C8_NeverNetworkOrBroadcast ==
    pc = "aggregate" =>
        LET ends == {network.addr, LastAddress(network)}
        IN  /\ \A r \in 1..Len(results) : ip_address(results[r][1]) \notin ends
            /\ Len(results) = Cardinality(AddressesOf(network) \ ends)

\* C8 amended: for a range of prefix length at most 30 the result holds
\* neither the network address nor the broadcast address, the addresses
\* probed are exactly the others of the range and the length is their
\* number; for a /31 the result holds both addresses of the range and for
\* a /32 its one address.
C8_UsableHostsUpTo30 ==
    pc = "aggregate" =>
        LET probed == {ip_address(results[r][1]) : r \in 1..Len(results)}
            all    == AddressesOf(network)
        IN  /\ network.prefixlen <= 30 =>
                  /\ probed = all \ {network.addr, LastAddress(network)}
                  /\ Len(results) = Cardinality(all) - 2
            /\ network.prefixlen > 30 =>
                  /\ probed = all
                  /\ Len(results) = Cardinality(all)

\* C8 witness: the scan of a /29 has returned its six rows
C8_Witness ==
    /\ pc = "aggregate"
    /\ network.prefixlen = 29
    /\ Len(results) = Cardinality(AddressesOf(network)) - 2

\* C9: when every probe returns, the run returns, and then every entry has
\* been handled in the given order and every entry that resolved has its
\* range scanned to the end and its rows stored under its identifier, the
\* text of the network with "/" replaced by "_", cut at 31 characters.
C9_RunReturnsFullReport ==
    /\ <>(pc = "done")
    /\ [](pc = "done" =>
            /\ i = Len(entries) + 1
            /\ \A k \in 1..Len(entries) :
                  /\ k <= Len(console)
                  /\ console[k].entry = k
                  /\ determine_subnet(entries[k]) # None =>
                        \E key \in DOMAIN all_results :
                            /\ IsIdentifier(key, determine_subnet(entries[k]))
                            /\ all_results[key] =
                                  ExpectedRows(determine_subnet(entries[k]))
            /\ \A key \in DOMAIN all_results :
                  \E k \in 1..Len(entries) :
                      /\ determine_subnet(entries[k]) # None
                      /\ IsIdentifier(key, determine_subnet(entries[k])))

\* C9 witness: a run over two entries, the first of which resolved, has
\* returned with the sheet "10.0.0.8_29"
C9_Witness ==
    /\ pc = "done"
    /\ Len(entries) = 2
    /\ entries[1] = EntryHostBits29
    /\ <<"1", "0", ".", "0", ".", "0", ".", "8", "_", "2", "9">>
          \in DOMAIN all_results

\* C10: a scan returns to main only when every probe dispatched for the
\* range has completed: none is in flight when the rows are stored and the
\* lists extended, every probe in flight belongs to the range being
\* scanned, and the sheets and the lists change in no step of a worker.
C10_ScanBlocksUntilProbesDone ==
    /\ [](pc = "aggregate" => running = {})
    /\ [](\A job \in running : pc = "scan" /\ job[1] = i)
    /\ [][aggregates' # aggregates =>
            /\ pc = "aggregate"
            /\ running = {}
            /\ running' = {}]_vars
    /\ [][running' # running => UNCHANGED aggregates]_vars

\* C10 witness: main holds the rows of a range that was scanned by two
\* workers, and no probe is left in flight
C10_Witness ==
    /\ pc = "aggregate"
    /\ max_threads = 2
    /\ Len(results) > 1
    /\ running = {}

=============================================================================
